---- MODULE Spec2Model ----
(***************************************************************************)
(* Merkle Search Tree (src/src/mst.rs), its page store (src/src/store.rs)  *)
(* and the level function (src/src/utils.rs).                              *)
(*                                                                         *)
(* Encoding.  An item key (MSTKey used as a key) is a natural number; the  *)
(* byte-wise order of GenericArray<u8, U32> is the numeric order of the    *)
(* big-endian number.  A byte string is a sequence of integers.  A page    *)
(* identifier (MSTKey used as root/low/next) is the digest of the bytes    *)
(* fed to the hasher: Sha256(s) is <<-1>> \o s \o <<-2>>, a collision-free  *)
(* digest whose output is self-delimiting (the program's digests have a    *)
(* fixed width; -1 and -2 are no bytes), and the all-zero identifier is    *)
(* DefaultKey.                                                             *)
(* Option<T> is a sequence of length 0 (None) or 1 (Some).                 *)
(***************************************************************************)
EXTENDS Integers, Sequences, FiniteSets, TLC

\* ------------------------------------------------------------------ bounds
NumKeys == 3
NumData == 2
MaxIns == 3
MaxMerges == 1
MaxRem == 2
MaxPartialIns == 1
NumStoreKeys == 3
NumStoreLevels == 2
MaxLeadZeros == 3
NumDeepKeys == 4
MaxDeepIns == 4

\* ------------------------------------------------------- program constants
HashLen == 32

Keys == 1..NumKeys
DeepKeys == 1..NumDeepKeys
DataVals == 1..NumData

\* A TestValue { key, data }: data is [d, 0, 0, 0].
Values == [key : Keys, data : DataVals]

\* The byte positions of a key's digest that hold zero.  The digest is a
\* black box; any byte pattern is a possible output, and the level depends
\* only on which bytes are zero.
ZeroPatterns == {{}, {7}, {1, 32}}

VARIABLES
    zeros,    \* zeros[k]: the zero byte positions of Sha256(k)
    mst,      \* mst[t] = [root, store]: the MST values of the program
    merged,   \* Option<(root, store)>: the pair returned by the last merge
    hist,     \* hist[t]: the (key, value) pairs inserted into mst[t], in order
    last,     \* the last operation, its arguments and the operands before it
    nIns,     \* number of insert calls made by the caller
    nMerges,  \* number of merge calls made by the caller
    panic,    \* "none", or the abort an operation ended with
    nRem,     \* number of pages left out of the store of a replica
    pages,    \* Store::pages of a store that is used on its own
    call      \* the last call on that store or of calc_level: arguments, result

vars == <<zeros, mst, merged, hist, last, nIns, nMerges, panic, nRem, pages, call>>

\* ------------------------------------------------------------ Option<T>
None == <<>>
Some(x) == <<x>>
IsSome(o) == Len(o) = 1
Unwrap(o) == o[1]

\* ------------------------------------------------------------ byte views
\* u32::to_be_bytes
U32BE(n) ==
    <<(n \div 16777216) % 256, (n \div 65536) % 256, (n \div 256) % 256, n % 256>>

\* MSTKey::as_ref of an item key: the big-endian bytes of the key, of which
\* the last two are kept
KeyBytes(k) == <<(k \div 256) % 256, k % 256>>

\* TestValue::as_ref: the four data bytes, the key field is not included
ValueBytes(v) == <<v.data, 0, 0, 0>>

\* Sha256 of a byte string, as an identifier
Sha256(s) == <<-1>> \o s \o <<-2>>

\* MSTKey::default()
DefaultKey == <<0>>

\* Option<MSTKey>::unwrap_or_default
UnwrapOrDefault(o) == IF IsSome(o) THEN o[1] ELSE DefaultKey

\* ------------------------------------------------------------ utils.rs
\* a comparison that is not a total order: no key is below another
CompareKeysNeverLess(k1, k2) ==
    IF k1 = k2 THEN "Equal" ELSE "Greater"

\* TestValue::compare_keys: key1.cmp(key2)
compare_keys(k1, k2) ==
    IF k1 < k2 THEN "Less" ELSE IF k1 = k2 THEN "Equal" ELSE "Greater"

\* TestValue::merge: always take the second value
Merge(self, other) == other

\* The digest whose zero bytes are at the positions z; the other bytes are
\* non-zero and differ from key to key.
DigestOf(key, z) ==
    [i \in 1..HashLen |-> IF i \in z THEN 0 ELSE 1 + ((7 * key + i) % 255)]

\* hash(key): the 32 digest bytes of a key
hash(key) == DigestOf(key, zeros[key])

\* format!("{:b}", byte): binary digits without leading zeros
BinDigit == <<"0", "1">>

RECURSIVE Bits(_)
Bits(b) ==
    IF b < 2 THEN <<BinDigit[b + 1]>> ELSE Bits(b \div 2) \o <<BinDigit[(b % 2) + 1]>>

\* format!("0{:08b} ", byte): the eight bits of the byte
FormatBytePadded(b) ==
    <<"0">> \o [i \in 1..8 |-> BinDigit[((b \div (2 ^ (8 - i))) % 2) + 1]] \o <<" ">>

\* format!("0{:b} ", byte)
FormatByte(b) == <<"0">> \o Bits(b) \o <<" ">>

\* for c in string.chars() { if c == '0' { count += 1 } else { break } }
RECURSIVE CountZeroChars(_, _)
CountZeroChars(s, i) ==
    IF i > Len(s) \/ s[i] # "0" THEN 0 ELSE 1 + CountZeroChars(s, i + 1)

\* the outer loop of calc_level over the bytes of a digest
RECURSIVE LevelOfDigest(_, _)
LevelOfDigest(h, i) ==
    IF i > Len(h) THEN 0
    ELSE CountZeroChars(FormatByte(h[i]), 1) + LevelOfDigest(h, i + 1)

\* calc_level, tabulated over the digests the keys can have
Digests == {DigestOf(k, z) : k \in Keys \cup DeepKeys, z \in ZeroPatterns}

LevelOf == [h \in Digests |-> LevelOfDigest(h, 1)]

calc_level(key) == LevelOf[hash(key)]

\* ------------------------------------------------------------ store.rs
EmptyStore == [id \in {} |-> None]

Has(store, id) == id \in DOMAIN store

\* Option<&Page>
Get(store, id) == IF id \in DOMAIN store THEN Some(store[id]) ELSE None

\* put that drops the mapping of an identifier it already holds
PutDropsPresent(store, id, page) ==
    IF id \in DOMAIN store THEN [x \in (DOMAIN store) \ {id} |-> store[x]]
    ELSE [x \in (DOMAIN store) \cup {id} |-> IF x = id THEN page ELSE store[x]]

Put(store, id, page) ==
    [x \in (DOMAIN store) \cup {id} |-> IF x = id THEN page ELSE store[x]]

\* remove that clears the map
RemoveClears(store, id) == [x \in {} |-> <<>>]

Remove(store, id) == [x \in (DOMAIN store) \ {id} |-> store[x]]

\* Page::refs
RECURSIVE NextRefs(_, _)
NextRefs(list, i) ==
    IF i > Len(list) THEN <<>>
    ELSE (IF IsSome(list[i].next) THEN <<list[i].next[1]>> ELSE <<>>)
             \o NextRefs(list, i + 1)

refs(page) == (IF IsSome(page.low) THEN <<page.low[1]>> ELSE <<>>) \o NextRefs(page.list, 1)

\* Store::missing_set.  MissingLoop is its while loop: to_visit is the stack
\* (the last element is popped), visited and result are the two sets.
RECURSIVE MissingLoop(_, _, _, _)
MissingLoop(st, to_visit, visited, result) ==
    IF to_visit = <<>> THEN result
    ELSE
        LET h == to_visit[Len(to_visit)]
            rest == SubSeq(to_visit, 1, Len(to_visit) - 1)
        IN
        IF h \in visited THEN MissingLoop(st, rest, visited, result)
        ELSE IF ~Has(st, h) THEN
            MissingLoop(st, rest, visited \cup {h}, result \cup {h})
        ELSE
            MissingLoop(st,
                        rest \o SelectSeq(refs(st[h]),
                                          LAMBDA r : r \notin visited \cup {h}),
                        visited \cup {h}, result)

\* missing_set that looks at the root and at the pages the root refers to,
\* and no deeper
MissingSetOfChildren(st, root) ==
    IF ~Has(st, root) THEN {root}
    ELSE {refs(st[root])[i] : i \in 1..Len(refs(st[root]))} \ DOMAIN st

missing_set(st, root) == MissingLoop(st, <<root>>, {}, {})

\* ------------------------------------------------------------ hash_page
PageData(k, v, n) == [key |-> k, value |-> v, next |-> n]

Page(level, low, list) == [level |-> level, low |-> low, list |-> list]

RECURSIVE ListBytes(_, _)
ListBytes(list, i) ==
    IF i > Len(list) THEN <<>>
    ELSE KeyBytes(list[i].key) \o ValueBytes(list[i].value)
            \o (IF IsSome(list[i].next) THEN list[i].next[1] ELSE <<>>)
            \o ListBytes(list, i + 1)

hash_page(page) ==
    Sha256(U32BE(page.level)
            \o (IF IsSome(page.low) THEN page.low[1] ELSE <<>>)
            \o ListBytes(page.list, 1))

\* ------------------------------------------------------------ mst.rs
\* MST::new
MSTNew == [root |-> DefaultKey, store |-> EmptyStore]

\* MST::with_store
with_store(root_key, store) == [root |-> root_key, store |-> store]

\* create_and_store_page that hashes the page before its low pointer is set
CreateAndStorePageHashesLowless(st, level, low, entries) ==
    [store |-> Put(st, hash_page(Page(level, None, entries)), Page(level, low, entries)),
     key |-> hash_page(Page(level, None, entries))]

\* create_and_store_page that computes the key and stores nothing
CreateAndStorePageForgets(st, level, low, entries) ==
    [store |-> st, key |-> hash_page(Page(level, low, entries))]

\* MST::create_and_store_page: [store, key]
create_and_store_page(st, level, low, entries) ==
    LET new_page == Page(level, low, entries)
        put(new_page_key) == [store |-> Put(st, new_page_key, new_page), key |-> new_page_key]
    IN  put(hash_page(new_page))

\* create_single_item_page that forgets the next pointer of the item
CreateSingleItemPageDropsNext(st, level, low, key, value, next) ==
    create_and_store_page(st, level, low, <<PageData(key, value, None)>>)

\* MST::create_single_item_page: [store, key]
create_single_item_page(st, level, low, key, value, next) ==
    create_and_store_page(st, level, low, <<PageData(key, value, next)>>)

\* MST::split: [store, left, right].  SplitWalk is the while loop of the
\* branch "split key is greater than or equal to the first entry"; i is the
\* 1-based index of the entry looked at.
RECURSIVE split(_, _, _)
RECURSIVE SplitWalk(_, _, _, _, _, _)
SplitWalk(st, entries, i, left_entries, split_key, level) ==
    LET entry == entries[i] IN
    IF i < Len(entries) /\ compare_keys(split_key, entries[i + 1].key) = "Less" THEN
        LET with_right(r, cp) ==
                [store |-> cp.store,
                 left_entries |-> Append(left_entries,
                                         PageData(entry.key, entry.value, r.left)),
                 right |-> Some(cp.key)]
            with_split(r) ==
                with_right(r, create_and_store_page(r.store, level, r.right,
                                                    SubSeq(entries, i + 1, Len(entries))))
        IN  with_split(split(st, entry.next, split_key))
    ELSE IF i = Len(entries) THEN
        LET with_split(r) ==
                [store |-> r.store,
                 left_entries |-> Append(left_entries,
                                         PageData(entry.key, entry.value, r.left)),
                 right |-> r.right]
        IN  with_split(split(st, entry.next, split_key))
    ELSE SplitWalk(st, entries, i + 1, Append(left_entries, entry), split_key, level)

\* split that hands the whole subtree back as the left part
SplitKeepsAllLeft(st, node_key_opt, split_key) ==
    [store |-> st, left |-> node_key_opt, right |-> None]

split(st, node_key_opt, split_key) ==
    IF node_key_opt = None \/ node_key_opt = Some(DefaultKey) THEN
        [store |-> st, left |-> None, right |-> None]
    ELSE
        LET node_key == Unwrap(node_key_opt) IN
        IF ~Has(st, node_key) THEN [store |-> st, left |-> None, right |-> None]
        ELSE
            LET current_page == st[node_key]
                st1 == Remove(st, node_key)
                level == current_page.level
                low_child == current_page.low
                entries == current_page.list
            IN
            IF entries = <<>> THEN [store |-> st1, left |-> low_child, right |-> None]
            ELSE IF compare_keys(split_key, entries[1].key) = "Less" THEN
                LET with_right(r, cp) ==
                        [store |-> cp.store, left |-> r.left, right |-> Some(cp.key)]
                    with_split(r) ==
                        with_right(r, create_and_store_page(r.store, level, r.right,
                                                            entries))
                IN  with_split(split(st1, low_child, split_key))
            ELSE
                LET with_left(w, left_page, left_page_key) ==
                        [store |-> Put(w.store, left_page_key, left_page),
                         left |-> Some(left_page_key),
                         right |-> w.right]
                    with_page(w, left_page) == with_left(w, left_page, hash_page(left_page))
                    with_walk(w) == with_page(w, Page(level, low_child, w.left_entries))
                IN  with_walk(SplitWalk(st1, entries, 1, <<>>, split_key, level))

\* An entry of parent_updates: (parent_key, UpdateType); idx is 1-based.
UpdateLow(parent_key) == [key |-> parent_key, kind |-> "Low", idx |-> 0]
UpdateNext(parent_key, i) == [key |-> parent_key, kind |-> "Next", idx |-> i]

RECURSIVE update_parent_chain(_, _, _)

\* update_parent_chain that rebuilds no parent
UpdateParentChainSkips(st, child_key, parent_updates) ==
    [store |-> st, key |-> child_key, panic |-> "none"]

\* update_parent_chain that rebuilds the nearest parent with the pointer to
\* the child as its only pointer
UpdateParentChainForgetsSiblings(st, child_key, parent_updates) ==
    IF parent_updates = <<>> THEN [store |-> st, key |-> child_key, panic |-> "none"]
    ELSE
        LET u == parent_updates[Len(parent_updates)]
            rest == SubSeq(parent_updates, 1, Len(parent_updates) - 1)
            parent_page == st[u.key]
            bare == [i \in 1..Len(parent_page.list) |->
                        [parent_page.list[i] EXCEPT !.next = None]]
            updated ==
                IF u.kind = "Low"
                THEN Page(parent_page.level, Some(child_key), bare)
                ELSE Page(parent_page.level, None,
                          [bare EXCEPT ![u.idx].next = Some(child_key)])
            put(new_parent_key) ==
                update_parent_chain(Put(st, new_parent_key, updated), new_parent_key, rest)
        IN  put(hash_page(updated))

\* MST::update_parent_chain, and the two copies of the same loop inside
\* insert: [store, key, panic]
update_parent_chain(st, child_key, parent_updates) ==
    IF parent_updates = <<>> THEN [store |-> st, key |-> child_key, panic |-> "none"]
    ELSE
        LET u == parent_updates[Len(parent_updates)]
            rest == SubSeq(parent_updates, 1, Len(parent_updates) - 1)
        IN
        IF ~Has(st, u.key) THEN [store |-> st, key |-> child_key, panic |-> "unwrap"]
        ELSE
            LET parent_page == st[u.key] IN
            IF u.kind = "Next" /\ u.idx > Len(parent_page.list) THEN
                [store |-> st, key |-> child_key, panic |-> "index"]
            ELSE
                LET updated ==
                        IF u.kind = "Low"
                        THEN [parent_page EXCEPT !.low = Some(child_key)]
                        ELSE [parent_page EXCEPT !.list[u.idx].next = Some(child_key)]
                    put(new_parent_key) ==
                        update_parent_chain(Put(st, new_parent_key, updated),
                                            new_parent_key, rest)
                IN  put(hash_page(updated))

\* the merge called as item_value.merge(entry.value)
MergedEntrySwapped(entry, item_value) ==
    PageData(entry.key, Merge(item_value, entry.value), entry.next)

\* the entry written without the pointer of the entry it replaces
MergedEntryDropsNext(entry, item_value) ==
    PageData(entry.key, Merge(entry.value, item_value), None)

\* The entry insert_after_first writes for a key that already exists:
\* entry.value.merge(item_value), key and next kept
MergedEntry(entry, item_value) ==
    PageData(entry.key, Merge(entry.value, item_value), entry.next)

\* MST::insert_after_first: [store, list, panic].  IAFLoop is its while loop.
RECURSIVE IAFLoop(_, _, _, _, _, _)
IAFLoop(st, current_entries, current_idx, result_entries, item_key, item_value) ==
    IF current_idx > Len(current_entries) THEN
        [store |-> st, list |-> result_entries, panic |-> "none"]
    ELSE
        LET entry == current_entries[current_idx]
            ord == compare_keys(entry.key, item_key)
            rest == SubSeq(current_entries, current_idx + 1, Len(current_entries))
        IN
        IF ord = "Equal" THEN
            [store |-> st,
             list |-> result_entries \o <<MergedEntry(entry, item_value)>> \o rest,
             panic |-> "none"]
        ELSE IF ord = "Less" THEN
            IF current_idx = Len(current_entries)
               \/ compare_keys(item_key, current_entries[current_idx + 1].key) = "Less"
            THEN
                LET with_split(r) ==
                        [store |-> r.store,
                         list |-> result_entries
                                    \o <<PageData(entry.key, entry.value, r.left),
                                         PageData(item_key, item_value, r.right)>>
                                    \o rest,
                         panic |-> "none"]
                IN  with_split(split(st, entry.next, item_key))
            ELSE IAFLoop(st, current_entries, current_idx + 1,
                         Append(result_entries, entry), item_key, item_value)
        ELSE [store |-> st, list |-> result_entries, panic |-> "order"]

\* insert_after_first that leaves the subtree after the preceding entry whole
InsertAfterFirstNoSplit(st, entries, item_key, item_value) ==
    LET below == {i \in 1..Len(entries) : compare_keys(entries[i].key, item_key) = "Less"}
        above == {i \in 1..Len(entries) : compare_keys(entries[i].key, item_key) = "Greater"}
        n == Cardinality(below)
    IN  [store |-> st,
         list |-> SubSeq(entries, 1, n)
                    \o <<PageData(item_key, item_value, None)>>
                    \o SubSeq(entries, Len(entries) - Cardinality(above) + 1, Len(entries)),
         panic |-> "none"]

insert_after_first(st, entries, item_key, item_value) ==
    IF entries = <<>> THEN [store |-> st, list |-> <<>>, panic |-> "none"]
    ELSE IAFLoop(st, entries, 1, <<>>, item_key, item_value)

\* The descent of insert below a page of higher level: the parent update to
\* push and the child to continue at.  DescendScan is the `for i in 1..len`
\* loop; i is the 1-based index of the entry compared with the item key.
RECURSIVE DescendScan(_, _, _, _)
DescendScan(current_key, list, i, item_key) ==
    IF i > Len(list) THEN
        [update |-> UpdateNext(current_key, Len(list)),
         child |-> UnwrapOrDefault(list[Len(list)].next)]
    ELSE IF compare_keys(item_key, list[i].key) = "Less" THEN
        [update |-> UpdateNext(current_key, i - 1),
         child |-> UnwrapOrDefault(list[i - 1].next)]
    ELSE DescendScan(current_key, list, i + 1, item_key)

\* a descent that always follows low
DescendAlwaysLow(current_key, current_page, item_key) ==
    [update |-> UpdateLow(current_key), child |-> UnwrapOrDefault(current_page.low)]

Descend(current_key, current_page, item_key) ==
    IF current_page.list = <<>>
       \/ compare_keys(item_key, current_page.list[1].key) = "Less"
    THEN [update |-> UpdateLow(current_key),
          child |-> UnwrapOrDefault(current_page.low)]
    ELSE DescendScan(current_key, current_page.list, 2, item_key)

\* self.root = <the key update_parent_chain returned>: [root, store, panic]
SetRoot(up) == [root |-> up.key, store |-> up.store, panic |-> up.panic]

\* The end of an iteration that built a page: the parents on the trail are
\* rebuilt over the stored page cp = [store, key] and the root is replaced.
UpdateParents(cp, parent_updates) ==
    SetRoot(update_parent_chain(cp.store, cp.key, parent_updates))

\* a page that is not in the store is unwrapped
InsertMissingUnwraps(st, parent_updates, item_key, item_value, level) ==
    [root |-> DefaultKey, store |-> st, panic |-> "unwrap"]

\* insert reached an identifier that is not in the store: [root, store, panic]
InsertMissing(st, parent_updates, item_key, item_value, level) ==
    UpdateParents(create_single_item_page(st, level, None, item_key, item_value, None),
                  parent_updates)

\* the page above a lower page is created at the lower page's level
InsertAboveAtPageLevel(st, current_page, parent_updates, item_key, item_value, level) ==
    LET existing_page == Page(current_page.level, current_page.low, current_page.list)
        with_split(sp) ==
            UpdateParents(create_single_item_page(sp.store, current_page.level, sp.left,
                                                  item_key, item_value, sp.right),
                          parent_updates)
        put(existing_page_key) ==
            with_split(split(Put(st, existing_page_key, existing_page),
                             Some(existing_page_key), item_key))
    IN  put(hash_page(existing_page))

\* insert reached a page of lower level than the item: [root, store, panic]
InsertAbove(st, current_page, parent_updates, item_key, item_value, level) ==
    LET existing_page == Page(current_page.level, current_page.low, current_page.list)
        with_split(sp) ==
            UpdateParents(create_single_item_page(sp.store, level, sp.left,
                                                  item_key, item_value, sp.right),
                          parent_updates)
        put(existing_page_key) ==
            with_split(split(Put(st, existing_page_key, existing_page),
                             Some(existing_page_key), item_key))
    IN  put(hash_page(existing_page))

\* a page of the item's level is treated as a page of lower level
InsertAtLevelAsAbove(st, current_key, current_page, parent_updates, item_key, item_value) ==
    InsertAbove(st, current_page, parent_updates, item_key, item_value,
                current_page.level)

\* insert reached a page of the item's level: [root, store, panic].  panic
\* "loop" stands for an iteration that ends in the state it began in (the
\* list is empty, new_list is dropped), so the loop never ends.
InsertAtLevel(st, current_key, current_page, parent_updates, item_key, item_value) ==
    IF current_page.list = <<>> THEN
        [root |-> current_key, store |-> st, panic |-> "loop"]
    ELSE IF compare_keys(item_key, current_page.list[1].key) = "Less" THEN
        LET with_split(sp) ==
                UpdateParents(
                    create_and_store_page(
                        sp.store, current_page.level, sp.left,
                        <<PageData(item_key, item_value, sp.right)>> \o current_page.list),
                    parent_updates)
        IN  with_split(split(st, current_page.low, item_key))
    ELSE
        LET with_list(af) ==
                IF af.panic # "none"
                THEN [root |-> current_key, store |-> af.store, panic |-> af.panic]
                ELSE UpdateParents(
                         create_and_store_page(af.store, current_page.level,
                                               current_page.low, af.list),
                         parent_updates)
        IN  with_list(insert_after_first(st, current_page.list, item_key, item_value))

\* The loop of MST::insert: [root, store, panic]
RECURSIVE InsertLoop(_, _, _, _, _, _)
InsertLoop(st, current_key, parent_updates, item_key, item_value, level) ==
    IF ~Has(st, current_key) THEN
        InsertMissing(st, parent_updates, item_key, item_value, level)
    ELSE
        LET current_page == st[current_key] IN
        IF current_page.level < level THEN
            InsertAbove(st, current_page, parent_updates, item_key, item_value, level)
        ELSE IF current_page.level = level THEN
            InsertAtLevel(st, current_key, current_page, parent_updates,
                          item_key, item_value)
        ELSE
            LET step(d) == InsertLoop(st, d.child, Append(parent_updates, d.update),
                                      item_key, item_value, level)
            IN  step(Descend(current_key, current_page, item_key))

\* insert that stores the first page of a tree and leaves the root as it was
InsertKeepsEmptyRoot(t, item_key, item_value) ==
    IF t.root = DefaultKey \/ ~Has(t.store, t.root) THEN
        LET keep_root(cp) == [root |-> t.root, store |-> cp.store, panic |-> "none"]
        IN  keep_root(create_single_item_page(t.store, calc_level(item_key), None,
                                              item_key, item_value, None))
    ELSE InsertLoop(t.store, t.root, <<>>, item_key, item_value, calc_level(item_key))

\* MST::insert on the tree t = [root, store]: [root, store, panic]
insert(t, item_key, item_value) ==
    LET level == calc_level(item_key) IN
    IF t.root = DefaultKey \/ ~Has(t.store, t.root) THEN
        LET set_root(cp) == [root |-> cp.key, store |-> cp.store, panic |-> "none"]
        IN  set_root(create_single_item_page(t.store, level, None,
                                             item_key, item_value, None))
    ELSE InsertLoop(t.store, t.root, <<>>, item_key, item_value, level)

\* MST::get_value_from_node: Option<Value>.  GetScan is its for loop.
RECURSIVE get_value_from_node(_, _, _)
RECURSIVE GetScan(_, _, _, _)
GetScan(st, page, i, search_key) ==
    IF i > Len(page.list) THEN None
    ELSE
        LET entry == page.list[i]
            ord == compare_keys(search_key, entry.key)
        IN
        IF ord = "Equal" THEN Some(entry.value)
        ELSE IF ord = "Less" THEN
            IF i = 1 THEN
                IF IsSome(page.low)
                THEN get_value_from_node(st, page.low[1], search_key) ELSE None
            ELSE
                IF IsSome(page.list[i - 1].next)
                THEN get_value_from_node(st, page.list[i - 1].next[1], search_key)
                ELSE None
        ELSE
            IF i = Len(page.list) THEN
                IF IsSome(entry.next)
                THEN get_value_from_node(st, entry.next[1], search_key) ELSE None
            ELSE GetScan(st, page, i + 1, search_key)

get_value_from_node(st, node_key, search_key) ==
    IF node_key = DefaultKey THEN None
    ELSE IF ~Has(st, node_key) THEN None
    ELSE
        LET page == st[node_key] IN
        IF page.list = <<>> THEN
            IF IsSome(page.low)
            THEN get_value_from_node(st, page.low[1], search_key) ELSE None
        ELSE GetScan(st, page, 1, search_key)

\* MST::get_value
get_value(t, search_key) == get_value_from_node(t.store, t.root, search_key)

\* MST::mst_order_traverse with a visitor that collects the VisitEntry
\* events: [visited, out].  TraverseList is its loop over the entries.
RECURSIVE mst_order_traverse(_, _, _, _)
RECURSIVE TraverseList(_, _, _, _, _)
TraverseList(st, list, i, visited, out) ==
    IF i > Len(list) THEN [visited |-> visited, out |-> out]
    ELSE
        LET out1 == Append(out, list[i])
            r == IF IsSome(list[i].next)
                 THEN mst_order_traverse(st, list[i].next[1], visited, out1)
                 ELSE [visited |-> visited, out |-> out1]
        IN  TraverseList(st, list, i + 1, r.visited, r.out)

mst_order_traverse(st, start, visited, out) ==
    IF start = DefaultKey \/ start \in visited THEN [visited |-> visited, out |-> out]
    ELSE
        LET visited1 == visited \cup {start} IN
        IF ~Has(st, start) THEN [visited |-> visited1, out |-> out]
        ELSE
            LET page == st[start]
                r == IF IsSome(page.low)
                     THEN mst_order_traverse(st, page.low[1], visited1, out)
                     ELSE [visited |-> visited1, out |-> out]
            IN  TraverseList(st, page.list, 1, r.visited, r.out)

\* MST::traverse_tree(MSTOrder, ..): the entries in visiting order
traverse_tree(t) == mst_order_traverse(t.store, t.root, {}, <<>>).out

\* MST::to_list
to_list(t) ==
    IF t.root = DefaultKey THEN <<>>
    ELSE LET values(es) == [i \in 1..Len(es) |-> es[i].value]
         IN  values(traverse_tree(t))

\* MST::add_items_to_mst: the target after the visitor inserted every entry
\* of self, in visiting order.  [self, target, panic]
RECURSIVE InsertAll(_, _, _)
InsertAll(target, es, i) ==
    IF i > Len(es) THEN target
    ELSE IF target.panic # "none" THEN target
    ELSE InsertAll(insert(target, es[i].key, es[i].value), es, i + 1)

\* add_items_to_mst whose visitor misses the first entry visited
AddItemsToMstSkipsFirst(self, target) ==
    IF self.root = DefaultKey THEN [self |-> self, target |-> target]
    ELSE [self |-> self, target |-> InsertAll(target, traverse_tree(self), 2)]

add_items_to_mst(self, target) ==
    IF self.root = DefaultKey THEN [self |-> self, target |-> target]
    ELSE [self |-> self, target |-> InsertAll(target, traverse_tree(self), 1)]

\* merge that adds the items of other before the items of self
MergeOtherFirst(self, other) ==
    LET new_mst == [root |-> DefaultKey, store |-> EmptyStore, panic |-> "none"]
        done(b, a) ==
            [root |-> a.target.root, store |-> a.target.store, panic |-> a.target.panic,
             self |-> a.self, other |-> b.self]
        second(b) ==
            done(b, IF self.root # DefaultKey
                    THEN add_items_to_mst(self, b.target)
                    ELSE [self |-> self, target |-> b.target])
    IN  second(IF other.root # DefaultKey
               THEN add_items_to_mst(other, new_mst)
               ELSE [self |-> other, target |-> new_mst])

\* merge that adds nothing when self is empty
MergeNothingIntoEmpty(self, other) ==
    LET new_mst == [root |-> DefaultKey, store |-> EmptyStore, panic |-> "none"]
        done(a, b) ==
            [root |-> b.target.root, store |-> b.target.store, panic |-> b.target.panic,
             self |-> a.self, other |-> b.self]
        second(a) ==
            done(a, IF other.root # DefaultKey /\ self.root # DefaultKey
                    THEN add_items_to_mst(other, a.target)
                    ELSE [self |-> other, target |-> a.target])
    IN  second(IF self.root # DefaultKey
               THEN add_items_to_mst(self, new_mst)
               ELSE [self |-> self, target |-> new_mst])

\* merge in place: the items of other are inserted into self
MergeInPlace(self, other) ==
    LET done(b) ==
            [root |-> b.target.root, store |-> b.target.store, panic |-> b.target.panic,
             self |-> [root |-> b.target.root, store |-> b.target.store],
             other |-> b.self]
    IN  done(IF other.root # DefaultKey
             THEN add_items_to_mst(other, [root |-> self.root, store |-> self.store,
                                           panic |-> "none"])
             ELSE [self |-> other,
                   target |-> [root |-> self.root, store |-> self.store,
                               panic |-> "none"]])

\* MST::merge: the pair (root, store) returned, and the operands afterwards
merge(self, other) ==
    LET new_mst == [root |-> DefaultKey, store |-> EmptyStore, panic |-> "none"]
        done(a, b) ==
            [root |-> b.target.root, store |-> b.target.store, panic |-> b.target.panic,
             self |-> a.self, other |-> b.self]
        second(a) ==
            done(a, IF other.root # DefaultKey
                    THEN add_items_to_mst(other, a.target)
                    ELSE [self |-> other, target |-> a.target])
    IN  second(IF self.root # DefaultKey
               THEN add_items_to_mst(self, new_mst)
               ELSE [self |-> self, target |-> new_mst])

\* ------------------------------------------------------------ the program
\* A caller that owns two trees, inserts into them, merges one with the
\* other and may continue with the merged pair through MST::with_store.
TreeIds == {"A", "B"}

NoValue == [key |-> 0, data |-> 0]

NoCall == [op |-> "none"]

Tree(r) == [root |-> r.root, store |-> r.store]

Init ==
    /\ zeros \in [Keys -> ZeroPatterns]
    /\ mst = [t \in TreeIds |-> MSTNew]
    /\ merged = None
    /\ hist = [t \in TreeIds |-> <<>>]
    /\ last = [op |-> "new", tree |-> "A", other |-> "A", key |-> 0, value |-> NoValue,
               pre |-> MSTNew, preOther |-> MSTNew, seq |-> <<>>]
    /\ nIns = 0
    /\ nMerges = 0
    /\ panic = "none"
    /\ nRem = 0
    /\ pages = EmptyStore
    /\ call = NoCall

\* mst[t].insert(k, TestValue { key: k, data: [d, 0, 0, 0] })
Insert(t, k, d) ==
    /\ panic = "none"
    /\ merged = None
    /\ nIns < MaxIns
    /\ LET v == [key |-> k, data |-> d]
           returned(r) ==
               /\ mst' = [mst EXCEPT ![t] = Tree(r)]
               /\ panic' = r.panic
       IN  /\ returned(insert(mst[t], k, v))
           /\ hist' = [hist EXCEPT ![t] = Append(@, [key |-> k, value |-> v])]
           /\ last' = [op |-> "insert", tree |-> t, other |-> t, key |-> k, value |-> v,
                       pre |-> mst[t], preOther |-> mst[t], seq |-> <<>>]
    /\ nIns' = nIns + 1
    /\ UNCHANGED <<zeros, merged, nMerges, nRem, pages, call>>

\* The (key, value) pairs of a tree in visiting order
Pairs(t) ==
    LET pairs(es) == [i \in 1..Len(es) |-> [key |-> es[i].key, value |-> es[i].value]]
    IN  pairs(traverse_tree(t))

\* let (root, store) = mst["A"].merge(&mst["B"])
MergeAB ==
    /\ panic = "none"
    /\ merged = None
    /\ nMerges < MaxMerges
    /\ LET returned(r) ==
               /\ mst' = [mst EXCEPT !["A"] = r.self, !["B"] = r.other]
               /\ merged' = Some([root |-> r.root, store |-> r.store])
               /\ panic' = r.panic
       IN  /\ returned(merge(mst["A"], mst["B"]))
           /\ last' = [op |-> "merge", tree |-> "A", other |-> "B", key |-> 0,
                       value |-> NoValue, pre |-> mst["A"], preOther |-> mst["B"],
                       seq |-> Pairs(mst["A"]) \o Pairs(mst["B"])]
    /\ nMerges' = nMerges + 1
    /\ UNCHANGED <<zeros, hist, nIns, nRem, pages, call>>

\* mst["A"] = MST::with_store(root, store) of the pair the merge returned
AdoptA ==
    /\ panic = "none"
    /\ merged # None
    /\ mst' = [mst EXCEPT !["A"] = with_store(merged[1].root, merged[1].store)]
    /\ hist' = [hist EXCEPT !["A"] = last.seq]
    /\ merged' = None
    /\ last' = [last EXCEPT !.op = "adopt"]
    /\ UNCHANGED <<zeros, nIns, nMerges, panic, nRem, pages, call>>

Next ==
    \/ \E t \in TreeIds, k \in Keys, d \in DataVals : Insert(t, k, d)
    \/ MergeAB
    \/ AdoptA

Spec == Init /\ [][Next]_vars

\* ------------------------------------------------------------ a replica
\* A replica holds the root of tree A and a clone of its store that lacks
\* pages (Store::clone, Store::remove), and goes on with MST::with_store.
OmitPage(id) ==
    /\ panic = "none"
    /\ nRem < MaxRem
    /\ Has(mst["A"].store, id)
    /\ mst' = [mst EXCEPT !["A"] = with_store(mst["A"].root, Remove(mst["A"].store, id))]
    /\ last' = [op |-> "omit", tree |-> "A", other |-> "A", key |-> id,
                value |-> NoValue, pre |-> mst["A"], preOther |-> mst["A"], seq |-> <<>>]
    /\ nRem' = nRem + 1
    /\ UNCHANGED <<zeros, merged, hist, nIns, nMerges, panic, pages, call>>

\* mst["A"].insert(k, v) on the replica
ReplicaInsert(k, d) ==
    /\ panic = "none"
    /\ nRem > 0
    /\ nIns < MaxIns + MaxPartialIns
    /\ LET v == [key |-> k, data |-> d]
           returned(r) ==
               /\ mst' = [mst EXCEPT !["A"] = Tree(r)]
               /\ panic' = r.panic
       IN  /\ returned(insert(mst["A"], k, v))
           /\ hist' = [hist EXCEPT !["A"] = Append(@, [key |-> k, value |-> v])]
           /\ last' = [op |-> "insert", tree |-> "A", other |-> "A", key |-> k,
                       value |-> v, pre |-> mst["A"], preOther |-> mst["A"],
                       seq |-> <<>>]
    /\ nIns' = nIns + 1
    /\ UNCHANGED <<zeros, merged, nMerges, nRem, pages, call>>

NextPartial ==
    \/ \E k \in Keys, d \in DataVals : nRem = 0 /\ Insert("A", k, d)
    \/ \E id \in DOMAIN mst["A"].store : OmitPage(id)
    \/ \E k \in Keys, d \in DataVals : ReplicaInsert(k, d)

SpecPartial == Init /\ [][NextPartial]_vars

\* ------------------------------------------------------------ a store
\* A Store<MSTKey, Page<MSTKey, TestValue>> used on its own, as
\* test_store_basic_operations does: the keys are create_key(..) digests and
\* the pages are written by hand.
StoreKeys == {Sha256(<<i>>) : i \in 1..NumStoreKeys}

StorePages ==
    {Page(level, low, <<>>) :
        level \in 1..NumStoreLevels, low \in {None, Some(Sha256(<<1>>))}}
        \cup {Page(1, None, <<PageData(1, [key |-> 1, data |-> 1], None)>>)}

InitStore == Init /\ zeros = [k \in Keys |-> {}]

\* store.put(id, page)
StorePut(id, page) ==
    /\ pages' = Put(pages, id, page)
    /\ call' = [op |-> "put", id |-> id, page |-> Some(page), ret |-> Some(id),
                pre |-> pages]
    /\ UNCHANGED <<zeros, mst, merged, hist, last, nIns, nMerges, panic, nRem>>

\* store.get(id)
StoreGet(id) ==
    /\ call' = [op |-> "get", id |-> id, page |-> None, ret |-> Get(pages, id),
                pre |-> pages]
    /\ UNCHANGED <<zeros, mst, merged, hist, last, nIns, nMerges, panic, nRem, pages>>

\* store.has(id)
StoreHas(id) ==
    /\ call' = [op |-> "has", id |-> id, page |-> None,
                ret |-> Some(Has(pages, id)), pre |-> pages]
    /\ UNCHANGED <<zeros, mst, merged, hist, last, nIns, nMerges, panic, nRem, pages>>

\* store.remove(id)
StoreRemove(id) ==
    /\ pages' = Remove(pages, id)
    /\ call' = [op |-> "remove", id |-> id, page |-> None, ret |-> None, pre |-> pages]
    /\ UNCHANGED <<zeros, mst, merged, hist, last, nIns, nMerges, panic, nRem>>

NextStore ==
    \/ \E id \in StoreKeys, page \in StorePages : StorePut(id, page)
    \/ \E id \in StoreKeys : StoreGet(id)
    \/ \E id \in StoreKeys : StoreHas(id)
    \/ \E id \in StoreKeys : StoreRemove(id)

SpecStore == InitStore /\ [][NextStore]_vars

\* ------------------------------------------------------------ calc_level
\* calc_level called on keys of any digest.  A digest is given by its number
\* of leading zero bytes, the byte after them and the value of the bytes
\* that follow.
FirstBytes == {1, 2, 4, 8, 16, 32, 64, 128, 255}

FillBytes == {0, 1, 255}

MkDigest(z, b, f) ==
    [i \in 1..HashLen |-> IF i <= z THEN 0 ELSE IF i = z + 1 THEN b ELSE f]

TestDigests ==
    {MkDigest(z, b, f) : z \in (0..MaxLeadZeros) \cup {HashLen - 1},
                         b \in FirstBytes, f \in FillBytes}
        \cup {[i \in 1..HashLen |-> 0]}

InitLevel == Init /\ zeros = [k \in Keys |-> {}]

\* calc_level(key) for a key whose digest is h
CalcLevel(h) ==
    /\ call' = [op |-> "calc_level", digest |-> h, ret |-> LevelOfDigest(h, 1)]
    /\ UNCHANGED <<zeros, mst, merged, hist, last, nIns, nMerges, panic, nRem, pages>>

NextLevel == \E h \in TestDigests : CalcLevel(h)

SpecLevel == InitLevel /\ [][NextLevel]_vars

\* ------------------------------------------------------------ properties
\* Operators the properties are stated with.
Range(h) == {h[i] : i \in 1..Len(h)}

KeysOfPairs(h) == {h[i].key : i \in 1..Len(h)}

NoDupKeys(h) == Cardinality(KeysOfPairs(h)) = Len(h)

\* the pairs of h (pairwise distinct keys) in ascending key order
SortByKey(h) ==
    [i \in 1..Len(h) |->
        CHOOSE p \in Range(h) : Cardinality({q \in Range(h) : q.key < p.key}) = i - 1]

\* MST::new() followed by the inserts of h, in the order of h
Build(h) == InsertAll([root |-> DefaultKey, store |-> EmptyStore, panic |-> "none"], h, 1)

\* the value the reference map of the inserts h holds for k: the last one
RECURSIVE RefValue(_, _, _)
RefValue(h, i, k) ==
    IF i = 0 THEN None
    ELSE IF h[i].key = k THEN Some(h[i].value)
    ELSE RefValue(h, i - 1, k)

\* the keys to_list returns
ListKeys(t) == {to_list(t)[i].key : i \in 1..Len(to_list(t))}

\* the page identifiers reachable from the root through pages of the store
RECURSIVE ReachFrom(_, _, _)
ReachFrom(st, frontier, seen) ==
    IF frontier = {} THEN seen
    ELSE
        LET id == CHOOSE x \in frontier : TRUE
            kids == IF Has(st, id) THEN Range(refs(st[id])) ELSE {}
        IN  ReachFrom(st, (frontier \cup kids) \ (seen \cup {id}), seen \cup {id})

Reachable(t) == IF t.root = DefaultKey THEN {} ELSE ReachFrom(t.store, {t.root}, {})

\* every tree the program holds: the two MSTs and the pair a merge returned
AllTrees ==
    {mst[t] : t \in TreeIds}
        \cup (IF merged = None THEN {} ELSE {with_store(merged[1].root, merged[1].store)})

\* C1: a tree built by inserting pairs with pairwise distinct keys has the
\* root and the to_list() of the tree built by inserting the same pairs in
\* ascending key order, and two trees holding the same such pairs agree.
C1_OrderIndependence ==
    /\ \A t \in TreeIds :
          NoDupKeys(hist[t]) =>
              LET c == Build(SortByKey(hist[t]))
              IN  /\ mst[t].root = c.root
                  /\ to_list(mst[t]) = to_list(c)
    /\ (/\ NoDupKeys(hist["A"])
        /\ NoDupKeys(hist["B"])
        /\ Range(hist["A"]) = Range(hist["B"]))
          => /\ mst["A"].root = mst["B"].root
             /\ to_list(mst["A"]) = to_list(mst["B"])

\* three keys of at least two levels were inserted out of key order
C1_Witness ==
    /\ Len(hist["A"]) = 3
    /\ NoDupKeys(hist["A"])
    /\ hist["A"] # SortByKey(hist["A"])
    /\ Cardinality({calc_level(k) : k \in KeysOfPairs(hist["A"])}) >= 2
    /\ last.op = "insert"

\* C2: right after insert(k, v), get_value(k) is v when k was absent and
\* existing.merge(v) when k held existing.
C2_InsertThenGet ==
    (last.op = "insert") =>
        LET before == get_value(last.pre, last.key)
            after == get_value(mst[last.tree], last.key)
        IN  after = IF before = None THEN Some(last.value)
                    ELSE Some(Merge(before[1], last.value))

\* a key that held another value was inserted again, below the root page
C2_Witness ==
    /\ last.op = "insert"
    /\ get_value(last.pre, last.key) # None
    /\ get_value(last.pre, last.key) # Some(last.value)
    /\ calc_level(last.key) < mst[last.tree].store[mst[last.tree].root].level

\* C3: insert(k, v) leaves get_value(k2) as it was for every other key k2,
\* and every tree answers every key as the reference map of its inserts.
C3_InsertFrame ==
    /\ (last.op = "insert") =>
          \A k2 \in Keys \ {last.key} :
              get_value(mst[last.tree], k2) = get_value(last.pre, k2)
    /\ \A t \in TreeIds, k \in Keys :
          get_value(mst[t], k) = RefValue(hist[t], Len(hist[t]), k)

\* an insert above a page holding two other keys split that page
C3_Witness ==
    /\ last.op = "insert"
    /\ Cardinality(ListKeys(last.pre)) = 2
    /\ last.key \notin ListKeys(last.pre)
    /\ \E k1, k2 \in ListKeys(last.pre) : k1 < last.key /\ last.key < k2
    /\ calc_level(last.key) > last.pre.store[last.pre.root].level

\* C4: to_list() of every tree is in non-decreasing key order.
C4_SortedEnumeration ==
    \A t \in AllTrees :
        \A i \in 1..(Len(to_list(t)) - 1) :
            compare_keys(to_list(t)[i].key, to_list(t)[i + 1].key) # "Greater"

\* a tree of three keys whose root page has a low child and a next child
C4_Witness ==
    \E t \in AllTrees :
        /\ Len(to_list(t)) = 3
        /\ IsSome(t.store[t.root].low)
        /\ IsSome(t.store[t.root].list[1].next)

\* C5: an insert of a new key makes to_list() one longer, an insert of a
\* key already listed leaves its length, and the length is the number of
\* distinct keys inserted.
C5_EntryCount ==
    /\ (last.op = "insert") =>
          Len(to_list(mst[last.tree])) =
              Len(to_list(last.pre)) + (IF last.key \in ListKeys(last.pre) THEN 0 ELSE 1)
    /\ \A t \in TreeIds : Len(to_list(mst[t])) = Cardinality(KeysOfPairs(hist[t]))

\* a third key was inserted, and then a listed key again
C5_Witness ==
    /\ last.op = "insert"
    /\ Len(hist[last.tree]) = 3
    /\ last.key \in ListKeys(last.pre)
    /\ Len(to_list(last.pre)) = 2

\* the operands of the last merge and the tree of the pair it returned
MergeSelf == last.pre
MergeOther == last.preOther
MergeResult == with_store(merged[1].root, merged[1].store)

\* C6: the pair returned by A.merge(&B) lists exactly the keys of A and of
\* B; a key of one tree only keeps its value and a key of both holds
\* valueA.merge(valueB).
C6_MergeIsUnion ==
    (last.op = "merge") =>
        /\ ListKeys(MergeResult) = ListKeys(MergeSelf) \cup ListKeys(MergeOther)
        /\ Len(to_list(MergeResult)) = Cardinality(ListKeys(MergeResult))
        /\ \A k \in Keys :
              LET a == get_value(MergeSelf, k)
                  b == get_value(MergeOther, k)
              IN  get_value(MergeResult, k) =
                      IF a = None THEN b
                      ELSE IF b = None THEN a
                      ELSE Some(Merge(a[1], b[1]))

\* the trees share a key with different values and A holds one more key
C6_Witness ==
    /\ last.op = "merge"
    /\ \E k \in Keys :
          /\ get_value(MergeSelf, k) # None
          /\ get_value(MergeOther, k) # None
          /\ get_value(MergeSelf, k) # get_value(MergeOther, k)
    /\ \E k \in Keys : get_value(MergeSelf, k) # None /\ get_value(MergeOther, k) = None

\* C7: T.merge(&E) and E.merge(&T) return the root of T when E is empty.
C7_UnionIdentity ==
    (last.op = "merge") =>
        /\ (MergeOther.root = DefaultKey) => (merged[1].root = MergeSelf.root)
        /\ (MergeSelf.root = DefaultKey) => (merged[1].root = MergeOther.root)

\* an empty tree was merged with a tree of three keys of at least two
\* levels that were inserted out of key order
C7_Witness ==
    /\ last.op = "merge"
    /\ MergeSelf.root = DefaultKey
    /\ Len(hist["B"]) = 3
    /\ NoDupKeys(hist["B"])
    /\ hist["B"] # SortByKey(hist["B"])
    /\ Cardinality({calc_level(k) : k \in KeysOfPairs(hist["B"])}) >= 2

\* C8: after A.merge(&B) both operands are what they were, and the pair
\* returned is what the inserts build from MST::new(), whose store is empty.
C8_MergeFrame ==
    (last.op = "merge") =>
        /\ mst["A"] = MergeSelf
        /\ mst["B"] = MergeOther
        /\ MergeResult = Tree(Build(last.seq))

\* both operands hold pages and the store of A holds a page that is not
\* reachable from its root
C8_Witness ==
    /\ last.op = "merge"
    /\ MergeSelf.root # DefaultKey
    /\ MergeOther.root # DefaultKey
    /\ (DOMAIN MergeSelf.store) \ Reachable(MergeSelf) # {}

\* C9: in every page reachable from a root, every entry key has the level
\* of the page.
C9_EntryLevel ==
    \A t \in AllTrees :
        \A id \in Reachable(t) \cap DOMAIN t.store :
            \A i \in 1..Len(t.store[id].list) :
                calc_level(t.store[id].list[i].key) = t.store[id].level

\* a reachable page of two entries above a reachable page
C9_Witness ==
    \E t \in AllTrees :
        \E id \in Reachable(t) \cap DOMAIN t.store :
            /\ Len(t.store[id].list) = 2
            /\ refs(t.store[id]) # <<>>

\* C10: every page referenced by a reachable page has a smaller level than
\* that page, and no reachable page is reachable from its own children.
C10_LevelsDecrease ==
    \A t \in AllTrees :
        \A id \in Reachable(t) \cap DOMAIN t.store :
            /\ \A c \in Range(refs(t.store[id])) :
                  Has(t.store, c) => t.store[c].level < t.store[id].level
            /\ id \notin ReachFrom(t.store, Range(refs(t.store[id])), {})

\* a chain of three pages: the root, a child and a child of the child
C10_Witness ==
    \E t \in {u \in AllTrees : Has(u.store, u.root)} :
        \E c \in Range(refs(t.store[t.root])) :
            /\ Has(t.store, c)
            /\ \E g \in Range(refs(t.store[c])) : Has(t.store, g)

NoPanic == panic = "none"

\* the keys of the entries of the pages under the pointer o (an Option<id>)
SubtreeKeys(st, o) ==
    IF o = None THEN {}
    ELSE UNION {{st[id].list[i].key : i \in 1..Len(st[id].list)} :
                    id \in ReachFrom(st, {o[1]}, {}) \cap DOMAIN st}

\* C11: in every reachable page the list is strictly ascending by key,
\* every key under low is less than list[0].key, and every key under
\* list[i].next is greater than list[i].key and less than list[i+1].key
\* when that entry exists.
C11_SearchOrder ==
    \A t \in AllTrees :
        \A id \in Reachable(t) \cap DOMAIN t.store :
            LET p == t.store[id] IN
            /\ \A i \in 1..(Len(p.list) - 1) :
                  compare_keys(p.list[i].key, p.list[i + 1].key) = "Less"
            /\ (p.list # <<>>) =>
                  \A k \in SubtreeKeys(t.store, p.low) :
                      compare_keys(k, p.list[1].key) = "Less"
            /\ \A i \in 1..Len(p.list) :
                  \A k \in SubtreeKeys(t.store, p.list[i].next) :
                      /\ compare_keys(k, p.list[i].key) = "Greater"
                      /\ (i < Len(p.list)) =>
                            compare_keys(k, p.list[i + 1].key) = "Less"

\* a reachable page of two entries with a key in the subtree between them
C11_Witness ==
    \E t \in AllTrees :
        \E id \in Reachable(t) \cap DOMAIN t.store :
            /\ Len(t.store[id].list) = 2
            /\ SubtreeKeys(t.store, t.store[id].list[1].next) # {}

\* C12: every (id, page) pair a store holds, reachable from the root or
\* not, has id = hash_page(page).
C12_ContentAddressing ==
    \A t \in AllTrees :
        \A id \in DOMAIN t.store : id = hash_page(t.store[id])

\* a store that holds a page with a low child and a page that is not
\* reachable from the root
C12_Witness ==
    \E t \in AllTrees :
        /\ (DOMAIN t.store) \ Reachable(t) # {}
        /\ \E id \in DOMAIN t.store : IsSome(t.store[id].low)

\* C13: for every tree, the empty one with its sentinel root included,
\* missing_set(root) is empty exactly when every page reachable from the
\* root is in the store.
C13_MissingSetSound ==
    \A t \in AllTrees :
        (missing_set(t.store, t.root) = {}) <=> (Reachable(t) \subseteq DOMAIN t.store)

\* the same for the trees that hold a page: the root is not the sentinel
MissingSetSoundBelowRoot ==
    \A t \in AllTrees :
        (t.root # DefaultKey) =>
            ((missing_set(t.store, t.root) = {})
                <=> (Reachable(t) \subseteq DOMAIN t.store))

\* C14: missing_set(root) is the set of the identifiers that are not in the
\* store and are the root or referenced by a page reached from the root
\* through pages of the store; when one reachable page P was left out of
\* the store of a tree built by inserts, it is {id(P)}.
C14_MissingSetExact ==
    /\ \A t \in AllTrees :
          missing_set(t.store, t.root) = ReachFrom(t.store, {t.root}, {}) \ DOMAIN t.store
    /\ (last.op = "omit" /\ nRem = 1 /\ last.key \in Reachable(last.pre)) =>
          missing_set(mst["A"].store, mst["A"].root) = {last.key}

\* the page left out is below the root page and has a child of its own,
\* or is the child of a child of the root
C14_Witness ==
    /\ last.op = "omit"
    /\ nRem = 1
    /\ last.key \in Reachable(last.pre)
    /\ last.key # last.pre.root
    /\ \/ refs(last.pre.store[last.key]) # <<>>
       \/ last.key \notin Range(refs(last.pre.store[last.pre.root]))

\* the mappings of the identifiers other than id are the same in s1 and s2
SameElsewhere(s1, s2, id) ==
    /\ (DOMAIN s1) \ {id} = (DOMAIN s2) \ {id}
    /\ \A x \in (DOMAIN s1) \ {id} : s1[x] = s2[x]

\* C15: after put(id, p) has(id) holds and get(id) is p; after remove(id)
\* has(id) is false and get(id) is None; get and has change nothing and
\* answer as the map before the call; remove of an absent id changes
\* nothing; the mapping of every other id is as before the call.
C15_StoreIsMap ==
    /\ (call.op = "put") =>
          /\ Has(pages, call.id)
          /\ Get(pages, call.id) = call.page
          /\ call.ret = Some(call.id)
          /\ SameElsewhere(pages, call.pre, call.id)
    /\ (call.op = "remove") =>
          /\ ~Has(pages, call.id)
          /\ Get(pages, call.id) = None
          /\ SameElsewhere(pages, call.pre, call.id)
          /\ (call.id \notin DOMAIN call.pre) => (pages = call.pre)
    /\ (call.op = "get") =>
          /\ pages = call.pre
          /\ call.ret = IF call.id \in DOMAIN call.pre
                        THEN Some(call.pre[call.id]) ELSE None
    /\ (call.op = "has") =>
          /\ pages = call.pre
          /\ call.ret = Some(call.id \in DOMAIN call.pre)

\* a present id was removed from a store that holds two other ids
C15_Witness ==
    /\ call.op = "remove"
    /\ call.id \in DOMAIN call.pre
    /\ Cardinality(DOMAIN pages) = 2

\* C16: put(id, page) on a store that already maps id to page, as it does
\* after a first put(id, page), leaves the store as it was.
C16_IdempotentPut ==
    (call.op = "put" /\ Get(call.pre, call.id) = call.page) => (pages = call.pre)

\* the same pair was put again into a store that holds another id as well
C16_Witness ==
    /\ call.op = "put"
    /\ Get(call.pre, call.id) = call.page
    /\ Cardinality(DOMAIN pages) >= 2

\* the number of leading bytes of h that are zero
LeadingZeroBytes(h) ==
    Cardinality({i \in 1..Len(h) : \A j \in 1..i : h[j] = 0})

\* the number of leading zero bits of the byte b, b # 0
LeadingZeroBits(b) == CHOOSE n \in 0..7 : 2 ^ (7 - n) <= b /\ b < 2 ^ (8 - n)

\* C17: calc_level is 9*z + w, z the number of leading zero bytes of the
\* digest and w = 1 + the leading zero bits of the first non-zero byte;
\* the bytes after it do not count, and an all-zero digest gives 288.
C17_LevelFormula ==
    (call.op = "calc_level") =>
        LET z == LeadingZeroBytes(call.digest)
        IN  call.ret = IF z = HashLen THEN 9 * HashLen
                       ELSE 9 * z + 1 + LeadingZeroBits(call.digest[z + 1])

\* what calc_level returns: one per byte of the digest and one more per
\* zero byte, wherever the zero bytes are
LevelCountsZeroBytes ==
    (call.op = "calc_level") =>
        call.ret = HashLen + Cardinality({i \in 1..HashLen : call.digest[i] = 0})

\* C18: calc_level is less than 256 for every digest: on the digests it was
\* called with, and because no byte value counts for 256 / 32 or more.
C18_LevelBound ==
    /\ (call.op = "calc_level") => (call.ret < 256)
    /\ \A b \in 0..255 : HashLen * CountZeroChars(FormatByte(b), 1) < 256

\* calc_level was called on the all-zero digest, where it is largest
C18_Witness ==
    /\ call.op = "calc_level"
    /\ \A i \in 1..HashLen : call.digest[i] = 0

\* C19: the root of a tree is the sentinel exactly when the tree holds no
\* entry; such a tree lists nothing and has no value for any key; after an
\* insert the root is not the sentinel and is in the store.
C19_RootSentinel ==
    /\ \A t \in AllTrees :
          /\ (t.root = DefaultKey) <=> (to_list(t) = <<>>)
          /\ (t.root = DefaultKey) => \A k \in Keys : get_value(t, k) = None
    /\ \A t \in TreeIds : (mst[t].root = DefaultKey) <=> (hist[t] = <<>>)
    /\ (last.op = "insert") =>
          /\ mst[last.tree].root # DefaultKey
          /\ Has(mst[last.tree].store, mst[last.tree].root)

\* the pair returned by a merge of two empty trees was taken over as tree
\* A, and an insert into it followed
C19_Witness ==
    /\ last.op = "insert"
    /\ last.tree = "A"
    /\ last.pre.root = DefaultKey
    /\ nMerges = 1

\* the descent for the key k from the page id ends at an identifier that is
\* not in the store: the page looked at next is low when k is below the
\* first key, and else the next of the last entry below k
RECURSIVE PathAbsent(_, _, _)
PathAbsent(st, id, k) ==
    IF ~Has(st, id) THEN TRUE
    ELSE
        LET p == st[id]
            below == {i \in 1..Len(p.list) : compare_keys(p.list[i].key, k) = "Less"}
            ptr == IF below = {} THEN p.low
                   ELSE p.list[CHOOSE i \in below : \A j \in below : j <= i].next
        IN  IF \E i \in 1..Len(p.list) : p.list[i].key = k THEN FALSE
            ELSE IF ptr = None THEN FALSE
            ELSE PathAbsent(st, ptr[1], k)

\* C20: on a store that lacks pages, get_value(k) is None when the root or
\* a page on the descent for k is absent, and insert(k, v) ends without a
\* failure and leaves get_value(k) = v.
C20_StoreMiss ==
    /\ \A k \in Keys :
          PathAbsent(mst["A"].store, mst["A"].root, k) => (get_value(mst["A"], k) = None)
    /\ (last.op = "insert") =>
          /\ panic = "none"
          /\ get_value(mst["A"], last.key) = Some(last.value)

\* an insert whose descent went through the root page and ended at a page
\* that is not in the store
C20_Witness ==
    /\ last.op = "insert"
    /\ nRem > 0
    /\ Has(last.pre.store, last.pre.root)
    /\ PathAbsent(last.pre.store, last.pre.root, last.key)

\* C21: after an insert, every page that was reachable from the root the
\* tree had before the insert is still in the store of the tree.
C21_OldRootRecoverable ==
    (last.op = "insert" /\ panic = "none") =>
        Reachable(last.pre) \subseteq DOMAIN mst[last.tree].store

\* C22: on trees reached from MST::new() by inserts and merges, no insert
\* aborts: neither the order panic of insert_after_first nor the unwrap of
\* a parent page nor the indexed access of the parent-chain update happens,
\* whether the insert is the caller's or one of those a merge performs.
C22_InsertInfallible ==
    /\ panic \notin {"order", "unwrap", "index"}
    /\ (last.op \in {"insert", "merge"}) => panic = "none"

\* an insert that went down from a root page of higher level to a page of
\* the level of the key and placed the key after the first entry of that
\* page, so that insert_after_first and the parent-chain update both ran
C22_Witness ==
    /\ last.op = "insert"
    /\ panic = "none"
    /\ Has(last.pre.store, last.pre.root)
    /\ LET root_page == last.pre.store[last.pre.root]
       IN  /\ root_page.level > calc_level(last.key)
           /\ Len(root_page.list) = 1
           /\ \E c \in Range(refs(root_page)) :
                 /\ Has(last.pre.store, c)
                 /\ last.pre.store[c].level = calc_level(last.key)
                 /\ last.pre.store[c].list[1].key < last.key
                 /\ (last.key < root_page.list[1].key)
                       = (last.pre.store[c].list[1].key < root_page.list[1].key)

\* ------------------------------------------------------------ split alone
\* MST::split applied to the tree A holds, at any pivot key.  split works
\* on a clone of the store, so that the tree goes on unchanged.
SplitAt(k) ==
    /\ panic = "none"
    /\ call' = [op |-> "split", key |-> k, pre |-> mst["A"],
                ret |-> split(mst["A"].store, Some(mst["A"].root), k)]
    /\ UNCHANGED <<zeros, mst, merged, hist, last, nIns, nMerges, panic, nRem, pages>>

NextSplit ==
    \/ \E k \in Keys, d \in DataVals : Insert("A", k, d)
    \/ \E k \in Keys : SplitAt(k)

SpecSplit == Init /\ [][NextSplit]_vars

\* the (key, value) pairs of the entries of the pages under the pointer o
SubtreePairs(st, o) ==
    IF o = None THEN {}
    ELSE UNION {{[key |-> st[id].list[i].key, value |-> st[id].list[i].value] :
                        i \in 1..Len(st[id].list)} :
                    id \in ReachFrom(st, {o[1]}, {}) \cap DOMAIN st}

\* C23: split(node, k) returns (left, right) where the subtree at left
\* holds exactly the entries of node with a key strictly less than k and
\* the subtree at right exactly those with a key greater than or equal to
\* k, each with the value it had.
C23_SplitPostcondition ==
    (call.op = "split") =>
        LET before == SubtreePairs(call.pre.store, Some(call.pre.root))
        IN  /\ SubtreePairs(call.ret.store, call.ret.left)
                 = {p \in before : compare_keys(p.key, call.key) = "Less"}
            /\ SubtreePairs(call.ret.store, call.ret.right)
                 = {p \in before : compare_keys(p.key, call.key) # "Less"}

\* the same postcondition for a pivot that is not a key of the subtree,
\* which is how insert calls split
SplitPostconditionOffKey ==
    (call.op = "split" /\ call.key \notin ListKeys(call.pre)) => C23_SplitPostcondition

\* a pivot that is a key of the subtree stays in the left part
SplitPivotGoesLeft ==
    (call.op = "split" /\ call.key \in ListKeys(call.pre)) =>
        /\ call.key \in SubtreeKeys(call.ret.store, call.ret.left)
        /\ SubtreePairs(call.ret.store, call.ret.left)
                 = {p \in SubtreePairs(call.pre.store, Some(call.pre.root)) :
                        compare_keys(p.key, call.key) # "Greater"}

\* ------------------------------------------------------------ a crafted store
\* A caller that puts pages of its own making into a Store (Page and its
\* fields are public), hands the store to MST::with_store and inserts.  The
\* pages have an empty list: a leaf of level 32 or 33, alone or under the
\* low of an empty page of the next level.
CraftedLeaves == {Page(level, None, <<>>) : level \in {32, 33}}

CraftedStores ==
    {[root |-> hash_page(leaf), store |-> Put(EmptyStore, hash_page(leaf), leaf)] :
        leaf \in CraftedLeaves}
    \cup
    {LET top == Page(leaf.level + 1, Some(hash_page(leaf)), <<>>)
     IN  [root |-> hash_page(top),
          store |-> Put(Put(EmptyStore, hash_page(leaf), leaf), hash_page(top), top)] :
        leaf \in CraftedLeaves}

\* mst["A"] = MST::with_store(c.root, c.store)
WithCraftedStore(c) ==
    /\ panic = "none"
    /\ nIns = 0
    /\ last.op = "new"
    /\ mst' = [mst EXCEPT !["A"] = with_store(c.root, c.store)]
    /\ last' = [last EXCEPT !.op = "with_store"]
    /\ UNCHANGED <<zeros, merged, hist, nIns, nMerges, panic, nRem, pages, call>>

NextCrafted ==
    \/ \E c \in CraftedStores : WithCraftedStore(c)
    \/ \E k \in Keys, d \in DataVals : Insert("A", k, d)

SpecCrafted == Init /\ [][NextCrafted]_vars

\* the page at which the loop of insert(k, _) stops going down from id: the
\* first one on the way that is absent or of a level not above that of k
RECURSIVE DescentEnd(_, _, _)
DescentEnd(st, id, k) ==
    IF ~Has(st, id) THEN id
    ELSE IF st[id].level <= calc_level(k) THEN id
    ELSE DescentEnd(st, Descend(id, st[id], k).child, k)

\* the descent of insert(k, _) on the tree t reaches a stored page of the
\* level of k whose list is empty
ReachesEmptyPage(t, k) ==
    /\ Has(t.store, t.root)
    /\ LET id == DescentEnd(t.store, t.root, k)
       IN  /\ Has(t.store, id)
           /\ t.store[id].level = calc_level(k)
           /\ t.store[id].list = <<>>

\* C24: an insert(k, v) whose descent reaches a stored page of the level of
\* k with an empty list ends, stores the page of that level and low with
\* the list [(k, v, None)] and returns a root from which that page is
\* reached.
C24_InsertIntoEmptyPage ==
    (last.op = "insert" /\ ReachesEmptyPage(last.pre, last.key)) =>
        LET old == last.pre.store[DescentEnd(last.pre.store, last.pre.root, last.key)]
            new_page == Page(old.level, old.low,
                             <<PageData(last.key, last.value, None)>>)
        IN  /\ panic = "none"
            /\ Has(mst["A"].store, hash_page(new_page))
            /\ mst["A"].store[hash_page(new_page)] = new_page
            /\ hash_page(new_page) \in Reachable(mst["A"])

\* the insert of C24 is the one that does not end
InsertIntoEmptyPageLoops ==
    (last.op = "insert") => ((panic = "loop") <=> ReachesEmptyPage(last.pre, last.key))

\* ------------------------------------------------------------ missing_set, step by step
\* Store::missing_set run one iteration of its while loop at a time, on
\* stores whose pages refer to any identifier: to themselves, to each other
\* in a cycle, twice to the same page, or to a page that is absent.
LinkPages ==
    {Page(1, low, <<>>) : low \in {None} \cup {Some(id) : id \in StoreKeys}}
    \cup
    {Page(1, low, <<PageData(1, [key |-> 1, data |-> 1], Some(next))>>) :
        low \in {None} \cup {Some(id) : id \in StoreKeys}, next \in StoreKeys}

LinkStores ==
    UNION {[ids -> LinkPages] : ids \in SUBSET StoreKeys}

InitMissing ==
    /\ zeros = [k \in Keys |-> {}]
    /\ mst = [t \in TreeIds |-> MSTNew]
    /\ merged = None
    /\ hist = [t \in TreeIds |-> <<>>]
    /\ last = [op |-> "new", tree |-> "A", other |-> "A", key |-> 0, value |-> NoValue,
               pre |-> MSTNew, preOther |-> MSTNew, seq |-> <<>>]
    /\ nIns = 0
    /\ nMerges = 0
    /\ panic = "none"
    /\ nRem = 0
    /\ pages \in LinkStores
    /\ call = NoCall

\* one iteration of the while loop that treats a popped identifier as new
\* whether or not it is in visited
MissingIterNoSkip(st, s) ==
    LET h == s.to_visit[Len(s.to_visit)]
        rest == SubSeq(s.to_visit, 1, Len(s.to_visit) - 1)
    IN  IF ~Has(st, h) THEN
            [s EXCEPT !.to_visit = rest, !.visited = @ \cup {h},
                      !.result = @ \cup {h}, !.matched = Append(@, h)]
        ELSE
            [s EXCEPT !.to_visit = rest \o SelectSeq(refs(st[h]),
                                                     LAMBDA r : r \notin s.visited \cup {h}),
                      !.visited = @ \cup {h}, !.matched = Append(@, h)]

\* one iteration of `while let Some(hash) = to_visit.pop()`; matched is the
\* sequence of the identifiers that got as far as `match self.pages.get`
MissingIter(st, s) ==
    LET h == s.to_visit[Len(s.to_visit)]
        rest == SubSeq(s.to_visit, 1, Len(s.to_visit) - 1)
    IN  IF h \in s.visited THEN [s EXCEPT !.to_visit = rest]
        ELSE IF ~Has(st, h) THEN
            [s EXCEPT !.to_visit = rest, !.visited = @ \cup {h},
                      !.result = @ \cup {h}, !.matched = Append(@, h)]
        ELSE
            [s EXCEPT !.to_visit = rest \o SelectSeq(refs(st[h]),
                                                     LAMBDA r : r \notin s.visited \cup {h}),
                      !.visited = @ \cup {h}, !.matched = Append(@, h)]

\* store.missing_set(root) up to the loop
MissingStart(root) ==
    /\ call = NoCall
    /\ call' = [op |-> "missing_set", root |-> root, to_visit |-> <<root>>,
                visited |-> {}, result |-> {}, matched |-> <<>>]
    /\ UNCHANGED <<zeros, mst, merged, hist, last, nIns, nMerges, panic, nRem, pages>>

MissingStep ==
    /\ call.op = "missing_set"
    /\ call.to_visit # <<>>
    /\ call' = MissingIter(pages, call)
    /\ UNCHANGED <<zeros, mst, merged, hist, last, nIns, nMerges, panic, nRem, pages>>

\* the loop ends on the empty stack and the function returns result
MissingReturn ==
    /\ call.op = "missing_set"
    /\ call.to_visit = <<>>
    /\ call' = [call EXCEPT !.op = "returned"]
    /\ UNCHANGED <<zeros, mst, merged, hist, last, nIns, nMerges, panic, nRem, pages>>

NextMissing ==
    \/ \E root \in StoreKeys : MissingStart(root)
    \/ MissingStep
    \/ MissingReturn

\* the loop is run without a pause until it ends
SpecMissing ==
    InitMissing /\ [][NextMissing]_vars /\ WF_vars(MissingStep) /\ WF_vars(MissingReturn)

\* every identifier a page of the store or the root can name
LinkIds(st, root) == {root} \cup UNION {Range(refs(st[id])) : id \in DOMAIN st}

\* no identifier got to the match twice
MatchedOnce ==
    (call.op \in {"missing_set", "returned"}) =>
        Cardinality(Range(call.matched)) = Len(call.matched)

\* C25: on every finite store and root, with pages that refer to themselves
\* or to each other in a cycle, missing_set(root) returns, and no identifier
\* is visited (looked up in the store) more than once.
C25_MissingSetTerminates ==
    /\ [](MatchedOnce)
    /\ (call.op = "missing_set") ~> (call.op = "returned")

\* missing_set has returned on a store in which a page refers to itself and
\* two pages refer to each other, all reachable from the root
C25_Witness ==
    /\ call.op = "returned"
    /\ \E a \in DOMAIN pages : a \in Range(refs(pages[a])) /\ a \in Range(call.matched)
    /\ \E a, b \in DOMAIN pages :
          /\ a # b
          /\ a \in Range(refs(pages[b])) /\ b \in Range(refs(pages[a]))
          /\ {a, b} \subseteq Range(call.matched)

\* each iteration either visits an identifier not visited before or leaves
\* visited as it is and shortens the stack: the pair (identifiers not yet
\* visited, stack length) goes down in the lexicographic order
MissingVariant ==
    [][(call.op = "missing_set" /\ call'.op = "missing_set") =>
          \/ /\ call.visited \subseteq call'.visited
             /\ call'.visited # call.visited
             /\ call'.visited \subseteq LinkIds(pages, call.root)
          \/ /\ call'.visited = call.visited
             /\ Len(call'.to_visit) < Len(call.to_visit)]_vars

\* the loop run step by step returns what the operator missing_set computes
MissingStepsAgree ==
    (call.op = "returned") => call.result = missing_set(pages, call.root)

\* C26: in every tree built from MST::new() by inserts, and in the (root,
\* store) pair a merge of two such trees returns, every page identifier
\* reachable from the root through low and next is present in the store.
C26_ReachabilityClosure ==
    (panic = "none") => \A t \in AllTrees : Reachable(t) \subseteq DOMAIN t.store

\* an insert during which split removed a page of the tree from the store,
\* leaving a tree of three pages or more
C26_Witness ==
    /\ last.op = "insert"
    /\ panic = "none"
    /\ ~(Reachable(last.pre) \subseteq DOMAIN mst[last.tree].store)
    /\ Cardinality(Reachable(mst[last.tree])) >= 3

\* the pair a merge returned, with a tree of three pages or more
MergedClosedWitness ==
    /\ merged # None
    /\ Cardinality(Reachable(with_store(merged[1].root, merged[1].store))) >= 3

\* ------------------------------------------------------------ hash_page on bytes
\* hash_page called on pages written by hand, with keys and page identifiers
\* of their true width (MSTKey, 32 bytes) and values of theirs ([u8; 4]), so
\* that the byte string fed to the digest is the one the code builds.  A
\* raw key and the data of a raw value repeat one byte value.
DataLen == 4

RawBytes == {0, 1}

RawLevels == {1, 2}

RawKeys == {[i \in 1..HashLen |-> a] : a \in RawBytes}

RawData == {[i \in 1..DataLen |-> a] : a \in RawBytes}

RawOptKeys == {None} \cup {Some(k) : k \in RawKeys}

\* PageData { key, value: TestValue { key, data }, next }
RawEntries ==
    {PageData(e[1], [key |-> e[1], data |-> e[2]], e[3]) :
        e \in RawKeys \X RawData \X RawOptKeys}

\* Page { level, low, list } with a list of up to two entries
RawPages ==
    {Page(level, low, list) :
        level \in RawLevels, low \in RawOptKeys,
        list \in {<<>>} \cup {<<e>> : e \in RawEntries}
                    \cup {<<e[1], e[2]>> : e \in RawEntries \X RawEntries}}

\* the bytes hash_page feeds to the hasher, update by update
RECURSIVE RawListBytes(_, _)
RawListBytes(list, i) ==
    IF i > Len(list) THEN <<>>
    ELSE list[i].key \o list[i].value.data
            \o (IF IsSome(list[i].next) THEN list[i].next[1] ELSE <<>>)
            \o RawListBytes(list, i + 1)

HasherInput(page) ==
    U32BE(page.level)
        \o (IF IsSome(page.low) THEN page.low[1] ELSE <<>>)
        \o RawListBytes(page.list, 1)

\* mst::hash_page(&page)
HashPage(page) ==
    /\ call' = [op |-> "hash_page", page |-> page, ret |-> Sha256(HasherInput(page))]
    /\ UNCHANGED <<zeros, mst, merged, hist, last, nIns, nMerges, panic, nRem, pages>>

NextHash == \E page \in RawPages : HashPage(page)

SpecHash == InitStore /\ [][NextHash]_vars

\* C27: hash_page gives a page the key of every page identical to it, and a
\* key different from that of every page that differs from it in level, in
\* low, or in the key, value or next of an entry.
C27_HashPageSeparates ==
    (call.op = "hash_page") =>
        \A q \in RawPages : (Sha256(HasherInput(q)) = call.ret) <=> (q = call.page)

\* two pages have the same shape: low is present in both or in neither, the
\* lists have the same length and next is present in the same entries
SameShape(p, q) ==
    /\ IsSome(p.low) = IsSome(q.low)
    /\ Len(p.list) = Len(q.list)
    /\ \A i \in 1..Len(p.list) : IsSome(p.list[i].next) = IsSome(q.list[i].next)

\* among pages of one shape hash_page does separate
HashPageSeparatesSameShape ==
    (call.op = "hash_page") =>
        \A q \in RawPages :
            SameShape(q, call.page) =>
                ((Sha256(HasherInput(q)) = call.ret) <=> (q = call.page))

\* ------------------------------------------------------------ a deeper tree
\* One tree that takes more inserts over more keys, as test_split_operation
\* does, so that an insert meets a tree of three keys.
InitDeep ==
    /\ zeros \in [DeepKeys -> ZeroPatterns]
    /\ mst = [t \in TreeIds |-> MSTNew]
    /\ merged = None
    /\ hist = [t \in TreeIds |-> <<>>]
    /\ last = [op |-> "new", tree |-> "A", other |-> "A", key |-> 0, value |-> NoValue,
               pre |-> MSTNew, preOther |-> MSTNew, seq |-> <<>>]
    /\ nIns = 0
    /\ nMerges = 0
    /\ panic = "none"
    /\ nRem = 0
    /\ pages = EmptyStore
    /\ call = NoCall

\* mst["A"].insert(k, TestValue { key: k, data: [d, 0, 0, 0] })
DeepInsert(k, d) ==
    /\ panic = "none"
    /\ nIns < MaxDeepIns
    /\ LET v == [key |-> k, data |-> d]
           returned(r) ==
               /\ mst' = [mst EXCEPT !["A"] = Tree(r)]
               /\ panic' = r.panic
       IN  /\ returned(insert(mst["A"], k, v))
           /\ hist' = [hist EXCEPT !["A"] = Append(@, [key |-> k, value |-> v])]
           /\ last' = [op |-> "insert", tree |-> "A", other |-> "A", key |-> k,
                       value |-> v, pre |-> mst["A"], preOther |-> mst["A"],
                       seq |-> <<>>]
    /\ nIns' = nIns + 1
    /\ UNCHANGED <<zeros, merged, nMerges, nRem, pages, call>>

NextDeep == \E k \in DeepKeys : DeepInsert(k, 1)

SpecDeep == InitDeep /\ [][NextDeep]_vars

\* the pages insert(k, _) and the split it calls look at: from the page id
\* down, through low when k is below the first key of a page and else
\* through the next of the last entry whose key is not above k, as far as
\* the page that holds k or to the end
RECURSIVE SearchPath(_, _, _)
SearchPath(st, id, k) ==
    IF ~Has(st, id) THEN {}
    ELSE
        LET p == st[id]
            at_or_below == {i \in 1..Len(p.list) :
                                compare_keys(p.list[i].key, k) # "Greater"}
            ptr == IF at_or_below = {} THEN p.low
                   ELSE p.list[CHOOSE i \in at_or_below : \A j \in at_or_below : j <= i].next
        IN  {id} \cup (IF \E i \in 1..Len(p.list) : p.list[i].key = k THEN {}
                       ELSE IF ptr = None THEN {}
                       ELSE SearchPath(st, ptr[1], k))

\* the pages of the tree before the last insert that are off its path
OffPath == Reachable(last.pre) \ SearchPath(last.pre.store, last.pre.root, last.key)

\* C28: insert(k, v) leaves every page that is reachable from the old root
\* and is neither on the descent path for k nor in the part of the subtree
\* that is split at k in the store, with its content, and reachable from
\* the new root under the same identifier.
C28_PathLocal ==
    (last.op = "insert" /\ panic = "none") =>
        \A id \in OffPath :
            /\ Has(mst[last.tree].store, id)
            /\ mst[last.tree].store[id] = last.pre.store[id]
            /\ id \in Reachable(mst[last.tree])

\* an insert that split pages of a tree of three keys which had a page off
\* the path
C28_Witness ==
    /\ last.op = "insert"
    /\ panic = "none"
    /\ OffPath # {}
    /\ ~(Reachable(last.pre) \subseteq DOMAIN mst[last.tree].store)
    /\ Cardinality(ListKeys(last.pre)) = 3

\* C29: an insert(k, v) into a tree built from MST::new() by inserts that
\* already holds k with the value v returns the root the tree had and
\* leaves the store as it was.
C29_ReinsertIdempotent ==
    (last.op = "insert" /\ get_value(last.pre, last.key) = Some(last.value)) =>
        /\ panic = "none"
        /\ mst[last.tree].root = last.pre.root
        /\ mst[last.tree].store = last.pre.store

\* a re-insertion of a stored pair whose entry has a subtree after it
C29_Witness ==
    /\ last.op = "insert"
    /\ get_value(last.pre, last.key) = Some(last.value)
    /\ \E id \in Reachable(last.pre) :
          \E i \in 1..Len(last.pre.store[id].list) :
              /\ last.pre.store[id].list[i].key = last.key
              /\ last.pre.store[id].list[i].next # None

\* a re-insertion of a stored pair that lies below the root page, so that
\* the parents on the way are rebuilt
ReinsertBelowRootWitness ==
    /\ last.op = "insert"
    /\ get_value(last.pre, last.key) = Some(last.value)
    /\ calc_level(last.key) < last.pre.store[last.pre.root].level

\* the sequences that list every element of the set s once
Orderings(s) ==
    {h \in [1..Cardinality(s) -> s] : Range(h) = s}

\* the operands of the last merge hold equal values for the keys they share
SharedKeysAgree ==
    \A k \in Keys :
        (get_value(MergeSelf, k) # None /\ get_value(MergeOther, k) # None)
            => get_value(MergeSelf, k) = get_value(MergeOther, k)

\* C30: when A and B hold equal values for the keys they share, the root
\* A.merge(&B) returns is the root of the tree built by inserting the union
\* of their entries into MST::new() in any order, and is the root
\* B.merge(&A) returns.
C30_MergeAgreesWithInsertion ==
    (last.op = "merge" /\ SharedKeysAgree) =>
        LET agrees(root, union) ==
                /\ \A h \in Orderings(union) : Build(h).root = root
                /\ merge(MergeOther, MergeSelf).root = root
        IN  agrees(MergeResult.root, Range(Pairs(MergeSelf)) \cup Range(Pairs(MergeOther)))

\* a merge of two trees that share a key with one value, the second tree
\* holding a key the first lacks, the keys being of two levels or more
C30_Witness ==
    /\ last.op = "merge"
    /\ SharedKeysAgree
    /\ \E k \in Keys : get_value(MergeSelf, k) # None /\ get_value(MergeOther, k) # None
    /\ \E k \in Keys : get_value(MergeSelf, k) = None /\ get_value(MergeOther, k) # None
    /\ Cardinality({calc_level(k) : k \in ListKeys(MergeResult)}) >= 2

\* a merge of two trees of disjoint keys, three keys in all
MergeDisjointWitness ==
    /\ last.op = "merge"
    /\ ListKeys(MergeSelf) \cap ListKeys(MergeOther) = {}
    /\ Cardinality(ListKeys(MergeResult)) = 3

====
